---- MODULE Spec2Model ----
(***************************************************************************)
(* Model of src/main.rs (bouncing, colliding, colour-cycling balls).       *)
(*                                                                         *)
(* Numbers.  The program computes in f32.  The model uses decimal fixed    *)
(* point: a coordinate or velocity component n stands for n / Scale, a     *)
(* colour channel c for c / ColorScale.  Products and quotients are        *)
(* rounded to the nearest representable value, as f32 arithmetic rounds.   *)
(* NaN is a value of its own: every arithmetic operation propagates it and *)
(* every comparison with it is false, as in IEEE 754.                      *)
(***************************************************************************)
EXTENDS Integers, Sequences, FiniteSets, TLC

VARIABLES balls, win_rect, phase, upc, i, j, calls, pre, tick

vars == <<balls, win_rect, phase, upc, i, j, calls, pre, tick>>

----------------------------------------------------------------------------
(* f32 arithmetic *)

Scale == 100

ColorScale == 1000

NaN == -999999999

\* let x = v in F(x), with v computed a single time
Once(v, F(_)) == CHOOSE r \in {F(x) : x \in {v}} : TRUE

IsNaN(a) == a = NaN

Abs(a) == IF a < 0 THEN -a ELSE a

\* n / d rounded to the nearest integer, ties away from zero (d > 0)
RoundDiv(n, d) == IF n >= 0 THEN (2 * n + d) \div (2 * d) ELSE -((2 * (-n) + d) \div (2 * d))

FAdd(a, b) == IF IsNaN(a) \/ IsNaN(b) THEN NaN ELSE a + b

FSub(a, b) == IF IsNaN(a) \/ IsNaN(b) THEN NaN ELSE a - b

FNeg(a) == IF IsNaN(a) THEN NaN ELSE -a

FMul(a, b) == IF IsNaN(a) \/ IsNaN(b) THEN NaN ELSE RoundDiv(a * b, Scale)

\* a / b; 0.0 / 0.0 is NaN (a nonzero a over 0.0 does not occur in the program)
FDiv(a, b) == IF IsNaN(a) \/ IsNaN(b) \/ b = 0 THEN NaN ELSE RoundDiv(a * Scale, b)

FLt(a, b) == ~IsNaN(a) /\ ~IsNaN(b) /\ a < b

FGt(a, b) == ~IsNaN(a) /\ ~IsNaN(b) /\ a > b

FLe(a, b) == ~IsNaN(a) /\ ~IsNaN(b) /\ a <= b

FGe(a, b) == ~IsNaN(a) /\ ~IsNaN(b) /\ a >= b

\* colour channels: product of two channel-scaled numbers
CMul(a, b) == IF IsNaN(a) \/ IsNaN(b) THEN NaN ELSE RoundDiv(a * b, ColorScale)

RECURSIVE SqrtSearch(_, _, _)
\* the largest r in lo..hi with r * r <= n, by bisection
SqrtSearch(n, lo, hi) ==
    IF lo >= hi THEN lo
    ELSE Once((lo + hi + 1) \div 2, LAMBDA mid :
              IF mid * mid <= n THEN SqrtSearch(n, mid, hi) ELSE SqrtSearch(n, lo, mid - 1))

\* square root of n >= 0 rounded to the nearest integer
ISqrt(n) == Once(SqrtSearch(n, 0, 46340), LAMBDA r : IF n - r * r > r THEN r + 1 ELSE r)

\* Beyond Coarse the squares are taken on coordinates rounded to whole
\* units: f32 keeps 24 significant bits, and the model's integers 31.
Coarse == 300 * Scale

----------------------------------------------------------------------------
(* glam Vec2 / Point2 *)

Vec(x, y) == [x |-> x, y |-> y]

VAdd(a, b) == Vec(FAdd(a.x, b.x), FAdd(a.y, b.y))

VSub(a, b) == Vec(FSub(a.x, b.x), FSub(a.y, b.y))

\* v * s for a scalar s
VScale(v, s) == Vec(FMul(v.x, s), FMul(v.y, s))

Dot(a, b) == FAdd(FMul(a.x, b.x), FMul(a.y, b.y))

Length(v) ==
    IF IsNaN(v.x) \/ IsNaN(v.y) THEN NaN
    ELSE IF Abs(v.x) < Coarse /\ Abs(v.y) < Coarse
         THEN ISqrt(v.x * v.x + v.y * v.y)
         ELSE LET cx == RoundDiv(v.x, Scale)
                  cy == RoundDiv(v.y, Scale)
              IN  Scale * ISqrt(cx * cx + cy * cy)

Distance(a, b) == Length(VSub(a, b))

\* Vec2::normalize: the vector over its length; the zero vector has length
\* 0.0 and 0.0 / 0.0 is NaN in both components (no check in release builds)
Normalize(v) == Once(Length(v), LAMBDA len : Vec(FDiv(v.x, len), FDiv(v.y, len)))

----------------------------------------------------------------------------
(* struct Ball and its methods *)

Rgb(r, g, b) == [red |-> r, green |-> g, blue |-> b]

Channels == {"red", "green", "blue"}

\* Ball::new
Ball(position, velocity, color, color_change_speed, color_change_direction) ==
    [position |-> position, velocity |-> velocity, color |-> color,
     color_change_speed |-> color_change_speed,
     color_change_direction |-> color_change_direction]

\* nannou Rect accessors: left(), right(), bottom(), top()
Rect(left, right, bottom, top) == [left |-> left, right |-> right, bottom |-> bottom, top |-> top]

\* Ball::update reflecting only a ball that was inside before the move
UpdatePositionFromInside(self, rect) ==
    LET position == VAdd(self.position, self.velocity)
        wasInX == FGe(self.position.x, rect.left) /\ FLe(self.position.x, rect.right)
        wasInY == FGe(self.position.y, rect.bottom) /\ FLe(self.position.y, rect.top)
        vx == IF wasInX /\ (FLt(position.x, rect.left) \/ FGt(position.x, rect.right))
              THEN FNeg(self.velocity.x) ELSE self.velocity.x
        vy == IF wasInY /\ (FLt(position.y, rect.bottom) \/ FGt(position.y, rect.top))
              THEN FNeg(self.velocity.y) ELSE self.velocity.y
    IN  [self EXCEPT !.position = position, !.velocity = Vec(vx, vy)]

\* Ball::update, first half: integrate the position, then reflect the velocity
UpdatePosition(self, rect) ==
    LET position == VAdd(self.position, self.velocity)
        vx == IF FLt(position.x, rect.left) \/ FGt(position.x, rect.right)
              THEN FNeg(self.velocity.x) ELSE self.velocity.x
        vy == IF FLt(position.y, rect.bottom) \/ FGt(position.y, rect.top)
              THEN FNeg(self.velocity.y) ELSE self.velocity.y
    IN  [self EXCEPT !.position = position, !.velocity = Vec(vx, vy)]

\* Ball::update, second half: drift every channel, then reverse the
\* direction of a channel that is <= 0.0 or >= 1.0
UpdateColor(self) ==
    LET color == [c \in Channels |->
                    FAdd(self.color[c], CMul(self.color_change_speed[c], self.color_change_direction[c]))]
        direction == [c \in Channels |->
                    CMul(self.color_change_direction[c],
                         IF FLe(color[c], 0) \/ FGe(color[c], ColorScale) THEN -ColorScale ELSE ColorScale)]
    IN  [self EXCEPT !.color = color, !.color_change_direction = direction]

\* Ball::update
Update(self, rect) == UpdateColor(UpdatePosition(self, rect))

radii_sum == 40 * Scale

\* Ball::collide with distance <= radii_sum as the test
CollideTouching(self, other) ==
    Once(Distance(self.position, other.position), LAMBDA distance :
    IF FLe(distance, radii_sum)
    THEN Once(VSub(self.position, other.position), LAMBDA collision_vector :
         Once(Normalize(collision_vector), LAMBDA normal :
         Once(VScale(normal, Dot(self.velocity, normal)), LAMBDA self_velocity :
         Once(VScale(normal, Dot(other.velocity, normal)), LAMBDA other_velocity :
         Once(FSub(radii_sum, distance), LAMBDA overlap :
         Once(VScale(normal, FDiv(overlap, 2 * Scale)), LAMBDA correction :
            << [self EXCEPT !.velocity = VAdd(self.velocity, VSub(other_velocity, self_velocity)),
                            !.position = VAdd(self.position, correction)],
               [other EXCEPT !.velocity = VAdd(other.velocity, VSub(self_velocity, other_velocity)),
                             !.position = VSub(other.position, correction)] >> ))))))
    ELSE <<self, other>>)

\* Ball::collide where other takes self's component after self has been updated
CollideStaleSwap(self, other) ==
    Once(Distance(self.position, other.position), LAMBDA distance :
    IF FLt(distance, radii_sum)
    THEN Once(VSub(self.position, other.position), LAMBDA collision_vector :
         Once(Normalize(collision_vector), LAMBDA normal :
         Once(VScale(normal, Dot(self.velocity, normal)), LAMBDA self_velocity :
         Once(VScale(normal, Dot(other.velocity, normal)), LAMBDA other_velocity :
         Once(FSub(radii_sum, distance), LAMBDA overlap :
         Once(VScale(normal, FDiv(overlap, 2 * Scale)), LAMBDA correction :
            << [self EXCEPT !.velocity = VAdd(self.velocity, VSub(other_velocity, self_velocity)),
                            !.position = VAdd(self.position, correction)],
               [other EXCEPT !.velocity = VAdd(other.velocity, VSub(other_velocity, other_velocity)),
                             !.position = VSub(other.position, correction)] >> ))))))
    ELSE <<self, other>>)

\* Ball::collide without the repositioning of the two balls
CollideNoReposition(self, other) ==
    Once(Distance(self.position, other.position), LAMBDA distance :
    IF FLt(distance, radii_sum)
    THEN Once(VSub(self.position, other.position), LAMBDA collision_vector :
         Once(Normalize(collision_vector), LAMBDA normal :
         Once(VScale(normal, Dot(self.velocity, normal)), LAMBDA self_velocity :
         Once(VScale(normal, Dot(other.velocity, normal)), LAMBDA other_velocity :
         Once(FSub(radii_sum, distance), LAMBDA overlap :
         Once(Vec(0, 0), LAMBDA correction :
            << [self EXCEPT !.velocity = VAdd(self.velocity, VSub(other_velocity, self_velocity)),
                            !.position = VAdd(self.position, correction)],
               [other EXCEPT !.velocity = VAdd(other.velocity, VSub(self_velocity, other_velocity)),
                             !.position = VSub(other.position, correction)] >> ))))))
    ELSE <<self, other>>)

\* Ball::collide; the result is the pair <<self, other>> after the call
Collide(self, other) ==
    Once(Distance(self.position, other.position), LAMBDA distance :
    IF FLt(distance, radii_sum)
    THEN Once(VSub(self.position, other.position), LAMBDA collision_vector :
         Once(Normalize(collision_vector), LAMBDA normal :
         Once(VScale(normal, Dot(self.velocity, normal)), LAMBDA self_velocity :
         Once(VScale(normal, Dot(other.velocity, normal)), LAMBDA other_velocity :
         Once(FSub(radii_sum, distance), LAMBDA overlap :
         Once(VScale(normal, FDiv(overlap, 2 * Scale)), LAMBDA correction :
            << [self EXCEPT !.velocity = VAdd(self.velocity, VSub(other_velocity, self_velocity)),
                            !.position = VAdd(self.position, correction)],
               [other EXCEPT !.velocity = VAdd(other.velocity, VSub(self_velocity, other_velocity)),
                             !.position = VSub(other.position, correction)] >> ))))))
    ELSE <<self, other>>)

----------------------------------------------------------------------------
(* fn model: the window and the balls at start-up *)

BALL_SPEED == 3 * Scale

\* the window is built 800 x 600; window_rect() is centred on the origin
Window == Rect(-400 * Scale, 400 * Scale, -300 * Scale, 300 * Scale)

\* a window the user has resized
Resized == Rect(-200 * Scale, 200 * Scale, -150 * Scale, 150 * Scale)

WinRects == {Window, Resized}

color_change_speed == Rgb(5, 5, 5)

Up == ColorScale

Down == -ColorScale

\* a ball at (px, py) moving by (vx, vy) per tick, in whole units
At(px, py, vx, vy) ==
    Ball(Vec(px * Scale, py * Scale), Vec(vx * Scale, vy * Scale),
         Rgb(0, 500, 998), color_change_speed, Rgb(Down, Up, Up))

\* the collections of balls the runs start from
Scenarios ==
    { \* three balls on the centre of the window
      << At(0, 0, 3, 0), At(0, 0, 0, 3), At(0, 0, -3, -3) >>,
      \* two balls in a row running into the right edge
      << At(399, 0, 3, 0), At(369, 0, 3, 0) >>,
      \* two balls that never touch, one leaving through the right edge
      << At(399, 100, 3, 0), At(-150, -100, 0, -3) >>,
      \* two balls that meet on the same point
      << At(0, 0, 3, 0), At(6, 0, -3, 0) >>,
      \* three balls overlapping each other
      << At(0, 0, 3, 0), At(33, 0, -3, 0), At(15, 24, 0, -3) >> }

N == Len(balls)

Init ==
    /\ balls \in Scenarios
    /\ win_rect = Window
    /\ phase = "idle"
    /\ upc = [k \in 1..Len(balls) |-> "done"]
    /\ i = 0
    /\ j = 0
    /\ calls = <<>>
    /\ pre = balls
    /\ tick = 0

----------------------------------------------------------------------------
(* fn update: one tick *)

MaxTicks == 3

\* let win_rect = _app.window_rect(), which returns r; the parallel
\* for_each is entered
BeginTick(r) ==
    /\ phase = "idle"
    /\ win_rect' = r
    /\ phase' = "advance"
    /\ upc' = [k \in 1..N |-> "todo"]
    /\ pre' = balls
    /\ calls' = <<>>
    /\ UNCHANGED <<balls, i, j, tick>>

\* the frame clock calls update; the user may have resized the window
StartTick == tick < MaxTicks /\ \E r \in WinRects : BeginTick(r)

\* a worker that moves ball k by the velocity of the first ball
WorkerMoveShared(k) ==
    /\ phase = "advance"
    /\ upc[k] = "todo"
    /\ balls' = [balls EXCEPT ![k] = UpdatePosition([balls[k] EXCEPT !.velocity = balls[1].velocity], win_rect)]
    /\ upc' = [upc EXCEPT ![k] = "moved"]
    /\ UNCHANGED <<win_rect, phase, i, j, calls, pre, tick>>

\* a worker runs the first half of ball.update(&win_rect) on ball k
WorkerMove(k) ==
    /\ phase = "advance"
    /\ upc[k] = "todo"
    /\ balls' = [balls EXCEPT ![k] = UpdatePosition(balls[k], win_rect)]
    /\ upc' = [upc EXCEPT ![k] = "moved"]
    /\ UNCHANGED <<win_rect, phase, i, j, calls, pre, tick>>

\* the worker finishes ball.update(&win_rect) on ball k
WorkerColor(k) ==
    /\ phase = "advance"
    /\ upc[k] = "moved"
    /\ balls' = [balls EXCEPT ![k] = UpdateColor(balls[k])]
    /\ upc' = [upc EXCEPT ![k] = "done"]
    /\ calls' = Append(calls, <<"update", k, k>>)
    /\ UNCHANGED <<win_rect, phase, i, j, pre, tick>>

\* for_each returns once every closure has run; for i in 0.. starts
Join ==
    /\ phase = "advance"
    /\ \A k \in 1..N : upc[k] = "done"
    /\ phase' = "sweep"
    /\ i' = 1
    /\ j' = 2
    /\ UNCHANGED <<balls, win_rect, upc, calls, pre, tick>>

\* ball_i.collide(ball_j) for the next ball_j of right
CollideStep ==
    /\ phase = "sweep"
    /\ i <= N
    /\ j <= N
    /\ LET r == Collide(balls[i], balls[j])
       IN  balls' = [balls EXCEPT ![i] = r[1], ![j] = r[2]]
    /\ calls' = Append(calls, <<"collide", i, j>>)
    /\ j' = j + 1
    /\ UNCHANGED <<win_rect, phase, upc, i, pre, tick>>

\* the next i, with right = balls[i ..]
NextIFromSelf ==
    /\ phase = "sweep"
    /\ i <= N
    /\ j > N
    /\ i' = i + 1
    /\ j' = i + 1
    /\ UNCHANGED <<balls, win_rect, phase, upc, calls, pre, tick>>

\* right is exhausted: the next i, with right = balls[i + 1 ..]
NextI ==
    /\ phase = "sweep"
    /\ i <= N
    /\ j > N
    /\ i' = i + 1
    /\ j' = i + 2
    /\ UNCHANGED <<balls, win_rect, phase, upc, calls, pre, tick>>

\* update returns
EndTick ==
    /\ phase = "sweep"
    /\ i > N
    /\ phase' = "idle"
    /\ tick' = IF tick < MaxTicks THEN tick + 1 ELSE tick
    /\ UNCHANGED <<balls, win_rect, upc, i, j, calls, pre>>

Next ==
    \/ StartTick
    \/ \E k \in 1..N : WorkerMove(k)
    \/ \E k \in 1..N : WorkerColor(k)
    \/ Join
    \/ CollideStep
    \/ NextI
    \/ EndTick

Spec == Init /\ [][Next]_vars

----------------------------------------------------------------------------
(* Properties of a tick *)

RECURSIVE PairsFrom(_, _, _)
\* <<a, b>>, <<a, b + 1>>, ..., <<a + 1, a + 2>>, ... up to <<n - 1, n>>
PairsFrom(a, b, n) ==
    IF a >= n THEN <<>>
    ELSE IF b > n THEN PairsFrom(a + 1, a + 2, n)
    ELSE <<<<"collide", a, b>>>> \o PairsFrom(a, b + 1, n)

\* the number of update calls at the head of the log
Updates == Cardinality({m \in 1..Len(calls) : calls[m][1] = "update"})

TickDone == phase = "idle" /\ tick > 0

Overlapping(a, b) == FLt(Distance(a.position, b.position), radii_sum)

\* C1: in every tick the update calls of all balls come before the first
\* collide call, and the collide calls are exactly the pairs i < j, each
\* once, in ascending i and then ascending j order; at the end of the tick
\* every pair has been visited once.
C1_SweepOrder ==
    LET u == Updates
        sweep == PairsFrom(1, 2, N)
    IN  /\ \A m \in 1..u : calls[m][1] = "update"
        /\ \A m, n \in 1..u : m # n => calls[m][2] # calls[n][2]
        /\ Len(calls) > u => {calls[m][2] : m \in 1..u} = 1..N
        /\ Len(calls) - u <= Len(sweep)
        /\ \A m \in 1..(Len(calls) - u) :
              /\ calls[u + m] = sweep[m]
              /\ calls[u + m][2] < calls[u + m][3]
        /\ TickDone => Len(calls) = N + (N * (N - 1)) \div 2

\* a tick of three balls is over after one pass, with two balls still overlapping
C1_Witness ==
    /\ TickDone
    /\ N = 3
    /\ Len(calls) = 6
    /\ calls[6] = <<"collide", 2, 3>>
    /\ \E k, m \in 1..N : k # m /\ Overlapping(balls[k], balls[m])

OutsideX(p, r) == FLt(p.x, r.left) \/ FGt(p.x, r.right)

OutsideY(p, r) == FLt(p.y, r.bottom) \/ FGt(p.y, r.top)

InsideX(p, r) == FGe(p.x, r.left) /\ FLe(p.x, r.right)

InsideY(p, r) == FGe(p.y, r.bottom) /\ FLe(p.y, r.top)

Moved(k) == phase = "advance" /\ upc[k] # "todo"

\* C2 as claimed: update negates velocity.x when the old position.x was
\* within [left, right] and the new one is outside, and otherwise leaves it
\* unchanged; the same for y; the position is old position + old velocity.
C2_ReflectOnlyFromInside ==
    \A k \in 1..N : Moved(k) =>
        LET old == pre[k]
            new == balls[k]
        IN  /\ new.position = VAdd(old.position, old.velocity)
            /\ new.velocity.x = IF InsideX(old.position, win_rect) /\ OutsideX(new.position, win_rect)
                                THEN FNeg(old.velocity.x) ELSE old.velocity.x
            /\ new.velocity.y = IF InsideY(old.position, win_rect) /\ OutsideY(new.position, win_rect)
                                THEN FNeg(old.velocity.y) ELSE old.velocity.y

\* C2 amended: update negates velocity.x exactly when the new position.x is
\* below left or above right, wherever the old position was; the same for y;
\* the position is old position + old velocity, never clamped.
C2_ReflectWhenOutside ==
    \A k \in 1..N : Moved(k) =>
        LET old == pre[k]
            new == balls[k]
        IN  /\ new.position = VAdd(old.position, old.velocity)
            /\ new.velocity.x = IF OutsideX(new.position, win_rect)
                                THEN FNeg(old.velocity.x) ELSE old.velocity.x
            /\ new.velocity.y = IF OutsideY(new.position, win_rect)
                                THEN FNeg(old.velocity.y) ELSE old.velocity.y

\* a ball that was outside, is still outside after the move, and turned round
C2_Witness ==
    \E k \in 1..N :
        /\ Moved(k)
        /\ win_rect = Window
        /\ OutsideX(pre[k].position, win_rect)
        /\ OutsideX(balls[k].position, win_rect)
        /\ pre[k].velocity.x # 0
        /\ balls[k].velocity.x = -pre[k].velocity.x

AdvanceDone == phase = "advance" /\ \A k \in 1..N : upc[k] = "done"

\* C8: whatever the order and interleaving of the workers, every ball is
\* the result of update on its own state at the start of the tick: while the
\* workers run, ball k depends on the progress of worker k only, and at the
\* join the balls are those of the calls made one after the other.
C8_AdvanceIndependent ==
    phase = "advance" =>
        \A k \in 1..N :
            balls[k] = CASE upc[k] = "todo" -> pre[k]
                         [] upc[k] = "moved" -> UpdatePosition(pre[k], win_rect)
                         [] upc[k] = "done" -> Update(pre[k], win_rect)

\* the workers finished in another order than the index order
C8_Witness == AdvanceDone /\ N = 3 /\ calls[1][2] = 3 /\ calls[2][2] = 1 /\ balls # pre

IsFiniteVec(v) == ~IsNaN(v.x) /\ ~IsNaN(v.y)

IsFiniteBall(b) ==
    /\ IsFiniteVec(b.position)
    /\ IsFiniteVec(b.velocity)
    /\ \A c \in Channels : ~IsNaN(b.color[c]) /\ ~IsNaN(b.color_change_direction[c])

Kinematics(bs) == [k \in 1..Len(bs) |-> <<bs[k].position, bs[k].velocity>>]

CentreStart == << At(0, 0, 3, 0), At(0, 0, 0, 3), At(0, 0, -3, -3) >>

\* the tick that started from the three balls on the centre is over
CentreTickDone == TickDone /\ win_rect = Window /\ Kinematics(pre) = Kinematics(CentreStart)

\* C7 as claimed: after the tick no field is NaN and every position is the
\* position before the tick plus the velocity before the tick.
C7_CentreTick ==
    CentreTickDone =>
        \A k \in 1..N :
            /\ IsFiniteBall(balls[k])
            /\ balls[k].position = VAdd(pre[k].position, pre[k].velocity)

CentreAdvanceDone == AdvanceDone /\ win_rect = Window /\ Kinematics(pre) = Kinematics(CentreStart)

\* C7 amended: no field of any ball is NaN after the tick; every position
\* is the position before the tick plus the velocity before the tick once
\* the advance phase is over, but the three balls then lie within radii_sum
\* of each other, so the collision sweep moves every one of them and no
\* position is old position + old velocity at the end of the tick.
C7_CentreTickSweepMoves ==
    /\ CentreAdvanceDone =>
          /\ \A k \in 1..N : IsFiniteBall(balls[k])
          /\ \A k \in 1..N : balls[k].position = VAdd(pre[k].position, pre[k].velocity)
          /\ \A k, m \in 1..N : k # m => Overlapping(balls[k], balls[m])
    /\ CentreTickDone =>
          /\ \A k \in 1..N : IsFiniteBall(balls[k])
          /\ \A k \in 1..N : balls[k].position # VAdd(pre[k].position, pre[k].velocity)

C7_Witness == CentreTickDone /\ tick = 1 /\ Len(calls) = 6

----------------------------------------------------------------------------
(* Ball::collide on its own: one call on a pair of balls *)

\* where the other ball lies, relative to self, in whole units
Offsets ==
    { <<0, 0>>, <<20, 0>>, <<30, 0>>, <<-30, 0>>, <<0, 30>>, <<18, 24>>, <<-15, -20>>,
      <<40, 0>>, <<24, -32>>, <<50, 0>>, <<30, 40>> }

SelfVelocities == { <<1, 0>>, <<3, 0>>, <<0, 3>>, <<-3, -3>> }

OtherVelocities == { <<-1, 0>>, <<3, 0>>, <<0, 0>>, <<0, -3>> }

CollideInputs ==
    { << At(100, 50, v[1], v[2]), At(100 + d[1], 50 + d[2], w[1], w[2]) >> :
        d \in Offsets, v \in SelfVelocities, w \in OtherVelocities }

InitCollide ==
    /\ balls \in CollideInputs
    /\ win_rect = Window
    /\ phase = "call"
    /\ upc = [k \in 1..Len(balls) |-> "done"]
    /\ i = 1
    /\ j = 2
    /\ calls = <<>>
    /\ pre = balls
    /\ tick = 0

\* balls[1].collide(balls[2])
CallCollide ==
    /\ phase = "call"
    /\ LET r == Collide(balls[i], balls[j])
       IN  balls' = [balls EXCEPT ![i] = r[1], ![j] = r[2]]
    /\ pre' = balls
    /\ calls' = Append(calls, <<"collide", i, j>>)
    /\ phase' = "returned"
    /\ UNCHANGED <<win_rect, upc, i, j, tick>>

NextCollide == CallCollide

SpecCollide == InitCollide /\ [][NextCollide]_vars

\* plain integer products, for stating the geometry without rounding
RawDot(a, b) == a.x * b.x + a.y * b.y

RawCross(a, b) == a.x * b.y - a.y * b.x

RawSub(a, b) == Vec(a.x - b.x, a.y - b.y)

RawTimes(s, v) == Vec(s * v.x, s * v.y)

Returned == phase = "returned"

\* self - other before the call
Centres == RawSub(pre[1].position, pre[2].position)

\* C3: for two balls on distinct positions less than radii_sum apart, one
\* collide call exchanges the velocity components along the line of centres,
\* keeps the components across it, moves self by overlap / 2 along the line
\* away from other and other by as much the other way, and leaves the
\* centres radii_sum apart on the same line; head-on at distance 30 with
\* velocities (1, 0) and (-1, 0) the velocities come out (-1, 0) and (1, 0).
C3_ElasticExchange ==
    (Returned /\ Centres # Vec(0, 0) /\ RawDot(Centres, Centres) < radii_sum * radii_sum) =>
        LET d == ISqrt(RawDot(Centres, Centres))
            overlap == radii_sum - d
        IN  /\ RawDot(balls[1].velocity, Centres) = RawDot(pre[2].velocity, Centres)
            /\ RawDot(balls[2].velocity, Centres) = RawDot(pre[1].velocity, Centres)
            /\ RawCross(balls[1].velocity, Centres) = RawCross(pre[1].velocity, Centres)
            /\ RawCross(balls[2].velocity, Centres) = RawCross(pre[2].velocity, Centres)
            /\ RawTimes(2 * d, RawSub(balls[1].position, pre[1].position)) = RawTimes(overlap, Centres)
            /\ RawTimes(2 * d, RawSub(balls[2].position, pre[2].position)) = RawTimes(-overlap, Centres)
            /\ RawTimes(d, RawSub(balls[1].position, balls[2].position)) = RawTimes(radii_sum, Centres)
            /\ Distance(balls[1].position, balls[2].position) = radii_sum
            /\ (/\ Centres = Vec(-30 * Scale, 0)
                /\ pre[1].velocity = Vec(Scale, 0)
                /\ pre[2].velocity = Vec(-Scale, 0))
               => balls[1].velocity = Vec(-Scale, 0) /\ balls[2].velocity = Vec(Scale, 0)

\* an oblique collision: both components of both velocities change
C3_Witness ==
    /\ Returned
    /\ Centres = Vec(-18 * Scale, -24 * Scale)
    /\ pre[1].velocity = Vec(3 * Scale, 0)
    /\ pre[2].velocity = Vec(0, -3 * Scale)
    /\ balls[1].velocity # pre[1].velocity
    /\ balls[1].position # pre[1].position

\* C4 as claimed: collide on two balls on the same position leaves no NaN
\* in any position or velocity and leaves the two balls apart.
C4_SamePositionGuarded ==
    (Returned /\ pre[1].position = pre[2].position) =>
        /\ \A k \in 1..2 : IsFiniteVec(balls[k].position) /\ IsFiniteVec(balls[k].velocity)
        /\ balls[1].position # balls[2].position

\* C5: two balls radii_sum or more apart, exactly radii_sum included, are
\* left as they were by collide: position, velocity and colour state.
C5_NoOverlapNoChange ==
    (Returned /\ RawDot(Centres, Centres) >= radii_sum * radii_sum) => balls = pre

\* exactly radii_sum apart, on a slanted line, with velocities that differ along it
C5_Witness ==
    /\ Returned
    /\ Centres = Vec(-24 * Scale, 32 * Scale)
    /\ RawDot(pre[1].velocity, Centres) # RawDot(pre[2].velocity, Centres)

----------------------------------------------------------------------------
(* Ball::update on its own: one ball, called tick after tick *)

\* colours and directions as model() may draw them: random_f32() is in
\* [0, 1), each direction is 1.0 or -1.0
ColorInputs ==
    { <<Rgb(0, 500, 250), Rgb(Down, Up, Down)>>,
      <<Rgb(998, 498, 3), Rgb(Up, Down, Up)>> }

\* the window has been resized and the ball is left beyond its edge
UpdateInputs ==
    { Ball(Vec(p[1] * Scale, p[2] * Scale), Vec(BALL_SPEED, 0), c[1], color_change_speed, c[2]) :
        p \in { <<399, 100>>, <<-399, -100>> }, c \in ColorInputs }

InitUpdate ==
    /\ \E b \in UpdateInputs : balls = <<b>>
    /\ win_rect = Resized
    /\ phase = "update"
    /\ upc = <<"done">>
    /\ i = 0
    /\ j = 0
    /\ calls = <<>>
    /\ pre = balls
    /\ tick = 0

\* balls[1].update(&win_rect)
CallUpdate ==
    /\ phase = "update"
    /\ balls' = [balls EXCEPT ![1] = Update(balls[1], win_rect)]
    /\ pre' = balls
    /\ UNCHANGED <<win_rect, phase, upc, i, j, calls, tick>>

NextUpdate == CallUpdate

SpecUpdate == InitUpdate /\ [][NextUpdate]_vars

\* the frame clock keeps calling update
SpecUpdateFair == SpecUpdate /\ WF_vars(CallUpdate)

\* C6 as claimed: every channel of the ball is in [0, 1] after any number
\* of update calls.
C6_ChannelsInUnitInterval ==
    \A c \in Channels : balls[1].color[c] >= 0 /\ balls[1].color[c] <= ColorScale

\* C10 as claimed: every channel is a triangle wave: each call moves it by
\* speed * direction, the direction inverts exactly when the result is <= 0
\* or >= 1, and the channel is at the upper end (>= 1) infinitely often and
\* at the lower end (<= 0) infinitely often.
C10_TriangleWave ==
    /\ [](\A c \in Channels :
            balls # pre =>
              /\ balls[1].color[c] = pre[1].color[c] + (pre[1].color_change_speed[c] * pre[1].color_change_direction[c]) \div ColorScale
              /\ balls[1].color_change_direction[c] =
                    IF balls[1].color[c] <= 0 \/ balls[1].color[c] >= ColorScale
                    THEN -pre[1].color_change_direction[c] ELSE pre[1].color_change_direction[c])
    /\ \A c \in Channels : []<>(balls[1].color[c] >= ColorScale)
    /\ \A c \in Channels : []<>(balls[1].color[c] <= 0)

----------------------------------------------------------------------------
(* The program run for ever in a window that is not resized *)

\* a ball at (px, py), in whole units, with velocity (vx, vy) / Scale, whose
\* three channels start on 0.0, going down
Dim(px, py, vx, vy) ==
    Ball(Vec(px * Scale, py * Scale), Vec(vx, vy),
         Rgb(0, 0, 0), color_change_speed, Rgb(Down, Down, Down))

\* pairs of balls of speed BALL_SPEED that start inside the window, on top
\* of each other, next to its upper right corner
LiveScenarios ==
    { << Dim(395, 295, -180, 240), Dim(390, 295, 240, 180) >>,
      << Dim(395, 295, -300, 0), Dim(389, 295, 0, 300) >>,
      << Dim(395, 295, 0, -300), Dim(395, 289, 300, 0) >>,
      << Dim(395, 295, 180, -240), Dim(392, 289, 240, 180) >> }

InitLive ==
    /\ balls \in LiveScenarios
    /\ win_rect = Window
    /\ phase = "idle"
    /\ upc = [k \in 1..Len(balls) |-> "done"]
    /\ i = 0
    /\ j = 0
    /\ calls = <<>>
    /\ pre = balls
    /\ tick = 0

\* the frame clock calls update; window_rect() is what it was
StartTickSameWindow == BeginTick(win_rect)

NextLive ==
    \/ StartTickSameWindow
    \/ \E k \in 1..N : WorkerMove(k)
    \/ \E k \in 1..N : WorkerColor(k)
    \/ Join
    \/ CollideStep
    \/ NextI
    \/ EndTick

\* the frame clock keeps calling update and every worker finishes
SpecLive == InitLive /\ [][NextLive]_vars /\ WF_vars(NextLive)

Inside(b, r) == InsideX(b.position, r) /\ InsideY(b.position, r)

\* C9 as claimed: with fixed bounds no ball stays outside the bounds for
\* ever: whenever a tick is over, there is a later tick after which the ball
\* is inside.
C9_BackInside ==
    \A k \in 1..2 : []<>(phase = "idle" /\ Inside(balls[k], win_rect))

====
